---- MODULE Spec2Model ----
(***************************************************************************)
(* Level-1 codec of acoma (package l1, codec.go).                          *)
(*                                                                         *)
(* A uint64 that can exceed 31 bits (the 33-bit data value of a block) is  *)
(* a sequence of WordBits bits, least significant first; addresses and     *)
(* metadata digits are integers: within the bounds below every product     *)
(* stays under 2^31, far from the uint64 wrap-around.                      *)
(*                                                                         *)
(* An oligo is a sequence of nucleotides 0..3 (A, T, C, G).                *)
(***************************************************************************)
EXTENDS Integers, Sequences, FiniteSets, TLC

\* ---------------------------------------------------------------- bounds
MaxBlk == 3          \* codecs have 2..MaxBlk blocks per oligo
FullAddrMax == 600   \* the packer is tried on every address when MaxAddr <= FullAddrMax

\* ------------------------------------------------------- program constants
PrimerErrors == 3
BlockSize == 4
DataNts == 17
RsNts == 5
WordBits == 64
HighGCTenths == 6

NoErr == "nil"
Eprimer == "primer mistmatch"
Emetadata == "can't recover metadata"
Einvblk == "invalid block number"
Einvsz == "invalid data size"
Ep5short == "5'-end primer must be at least four nt long"
Eaddr == "address too big"
El0 == "l0: value does not fit"
Erecover == "recovery failed"
NoPanic == "none"
PanicResidual == "Internal error: address not zero at the end"
PanicMdBig == "metadata block too big (FIXME)"
PanicGC == "both high GC content"

maxvals == [m \in 3..5 |-> CASE m = 3 -> 47 [] m = 4 -> 186 [] m = 5 -> 733]

\* ------------------------------------------------------------ uint64 bits
Pow2(k) == 2 ^ k

\* bit i (0-based) of a small non-negative integer
BitOf(n, i) == IF i > 30 THEN 0 ELSE (n \div Pow2(i)) % 2

\* uint64(n) for an integer n < 2^31
U64(n) == [i \in 1..WordBits |-> BitOf(n, i - 1)]

\* bits.OnesCount64
OnesCount64(v) == Cardinality({i \in 1..WordBits : v[i] = 1})

\* v << 1, v >> 1, ^v, v + 1 for an even v
Shl1(v) == [i \in 1..WordBits |-> IF i = 1 THEN 0 ELSE v[i - 1]]
Shr1(v) == [i \in 1..WordBits |-> IF i = WordBits THEN 0 ELSE v[i + 1]]
Not64(v) == [i \in 1..WordBits |-> 1 - v[i]]
Inc64(v) == [v EXCEPT ![1] = 1]

\* byte(v >> (8*k))
ByteAt(v, k) == v[8*k + 1] + 2*v[8*k + 2] + 4*v[8*k + 3] + 8*v[8*k + 4]
                + 16*v[8*k + 5] + 32*v[8*k + 6] + 64*v[8*k + 7] + 128*v[8*k + 8]

\* uint64(buf[0]) | uint64(buf[1])<<8 | uint64(buf[2])<<16 | uint64(buf[3])<<24
Combine(buf) ==
    [i \in 1..WordBits |->
        IF i <= 32 THEN BitOf(buf[((i - 1) \div 8) + 1], (i - 1) % 8) ELSE 0]

\* byte(x) of an integer, ^b of a byte
Byte(x) == x % 256
NotByte(b) == 255 - b

\* the integer a uint64 holds in its low k bits (k <= 30)
RECURSIVE LowNat(_, _)
LowNat(v, k) == IF k = 0 THEN 0 ELSE v[k] * Pow2(k - 1) + LowNat(v, k - 1)

HighZero(v, k) == \A i \in (k + 1)..WordBits : v[i] = 0

\* ------------------------------------------------------- oligo (acoma/oligo)
\* Oligo.Slice(start, end): end = 0 means "to the end"; out-of-range is clamped
Slice(ol, start, end) ==
    LET e == IF end = 0 \/ end > Len(ol) THEN Len(ol) ELSE end
    IN  IF start >= e THEN <<>> ELSE SubSeq(ol, start + 1, e)

\* the number of G and C nucleotides of ol (A, T, C, G are 0, 1, 2, 3)
CountGC(ol) == Cardinality({k \in 1..Len(ol) : ol[k] >= 2})

\* oligo.GCcontent(o) > 0.6
HighGC(ol) == 10 * CountGC(ol) > HighGCTenths * Len(ol)

\* the number of places where p differs from ol at position pos
Mismatches(ol, pos, p) == Cardinality({k \in 1..Len(p) : ol[pos + k] # p[k]})

\* the positions of ol where p matches with at most `errors` mismatches
Matches(ol, p, errors) ==
    {i \in 0..(Len(ol) - Len(p)) : Mismatches(ol, i, p) <= errors}

Better(ol, p, i, j) ==
    \/ Mismatches(ol, i, p) < Mismatches(ol, j, p)
    \/ Mismatches(ol, i, p) = Mismatches(ol, j, p) /\ i <= j

BestMatch(ol, p, hits) ==
    IF hits = {} THEN <<-1, 0>>
    ELSE <<CHOOSE i \in hits : \A j \in hits : Better(ol, p, i, j), Len(p)>>

\* oligo.Find(ol, p, errors): position and length of the leftmost place where
\* p matches with the fewest mismatches, at most `errors`; <<-1, 0>> when
\* there is none
Find(ol, p, errors) == BestMatch(ol, p, Matches(ol, p, errors))

\* ---------------------------------------------------------- l0 and criteria
\* A criteria fixes how many values a segment of a given length can render.
\* "H4G2" is the criteria the maxvals table was computed for; "strict" is a
\* tighter criteria that renders fewer values in the same length.
Criterias == {"H4G2", "strict"}

L0Cap(crit, olen) ==
    IF crit = "H4G2" THEN maxvals[olen] ELSE maxvals[olen] \div 2

\* whether value v can be rendered in olen nucleotides under crit
L0Fits(v, olen, crit) ==
    IF olen = DataNts THEN HighZero(v, 2 * DataNts - 1)
    ELSE HighZero(v, 2 * olen) /\ LowNat(v, 2 * olen) < L0Cap(crit, olen)

\* the encoding context a 4-nt prefix contributes
L0Ctx(prefix) == (prefix[1] + prefix[2] + prefix[3] + prefix[4]) % 4

\* l0.Encode(prefix, val, oligoLen, crit)
L0Encode(prefix, v, olen, crit) ==
    IF ~L0Fits(v, olen, crit) THEN [o |-> <<>>, err |-> El0]
    ELSE [o |-> [k \in 1..olen |->
                    LET d == v[2*k - 1] + 2 * v[2*k]
                    IN  IF k = 1 THEN (d + L0Ctx(prefix)) % 4 ELSE d],
          err |-> NoErr]

\* the value a segment renders in context ctx
L0Value(seg, ctx) ==
    [i \in 1..WordBits |->
        IF i > 2 * Len(seg) THEN 0
        ELSE IF i = 1 THEN ((seg[1] + 4 - ctx) % 4) % 2
        ELSE IF i = 2 THEN ((seg[1] + 4 - ctx) % 4) \div 2
        ELSE IF i % 2 = 1 THEN seg[(i + 1) \div 2] % 2
        ELSE seg[i \div 2] \div 2]

L0Checked(v, olen, crit) ==
    IF L0Fits(v, olen, crit) THEN [v |-> v, err |-> NoErr] ELSE [v |-> U64(0), err |-> El0]

\* l0.Decode(prefix, ol, crit)
L0Decode(prefix, seg, crit) == L0Checked(L0Value(seg, L0Ctx(prefix)), Len(seg), crit)

\* ------------------------------------- erasure coder (klauspost/reedsolomon)
\* parity shard j of the data shards: a byte that depends on every data shard
RECURSIVE RsSum(_, _, _)
RsSum(shards, j, k) ==
    IF k = 0 THEN 0 ELSE ((2 * (k + j) + 1) * shards[k] + RsSum(shards, j, k - 1)) % 256

\* Encoder.Encode(shards): fills the trailing parity shards in place
RsEncode(shards, mdnum) ==
    [i \in 1..Len(shards) |->
        IF i <= mdnum THEN shards[i] ELSE RsSum(shards, i - mdnum, mdnum)]

\* Encoder.Verify(shards)
RsVerify(shards, mdnum) == [ok |-> RsEncode(shards, mdnum) = shards, err |-> NoErr]

\* ------------------------------------------------------------------ Codec
\* NewCodec(blknum, mdsz, rsnum, crit)
NewCodec(blknum, mdsz, rsnum, crit) ==
    [blknum |-> blknum, rsnum |-> rsnum, mdsz |-> mdsz, crit |-> crit,
     olen |-> blknum * DataNts + mdsz * (blknum - rsnum) + RsNts * rsnum]

\* the codecs NewCodec returns: 3 <= mdsz <= 5, and reedsolomon.New accepts
\* at least one data shard and one parity shard
Codecs ==
    UNION {{NewCodec(b, m, r, cr) : m \in 3..5, r \in 1..(b - 1), cr \in Criterias} :
              b \in 2..MaxBlk}

BlockNum(c) == c.blknum
DataLen(c) == c.blknum * BlockSize
OligoLen(c) == c.olen

RECURSIVE MaxAddrLoop(_, _, _)
MaxAddrLoop(ma, maxval, n) == IF n = 0 THEN ma ELSE MaxAddrLoop(ma * maxval, maxval, n - 1)

MaxAddr(c) == MaxAddrLoop(1, maxvals[c.mdsz], c.blknum - c.rsnum) \div 4

\* the loop "for i := mdnum-1; i >= 0; i--" of calculateMdBlocks: digits, most
\* significant first, and what is left of address
RECURSIVE SplitDigits(_, _, _)
SplitDigits(address, mdlen, n) ==
    IF n = 0 THEN [digits |-> <<>>, rest |-> address]
    ELSE LET hi == SplitDigits(address \div mdlen, mdlen, n - 1)
         IN  [digits |-> Append(hi.digits, address % mdlen), rest |-> hi.rest]

\* the guard before the shards are built
\* (a guard of 2*M > 10 would let width 5 through)
MdTooBig_wide(c) == c.mdsz * 2 > 10
MdTooBig(c) == c.mdsz * 2 > 8

\* the address as adjusted by the flags
PackValue(c, address, ef, sf) ==
    address + (IF sf THEN MaxAddr(c) * 2 ELSE 0) + (IF ef THEN MaxAddr(c) ELSE 0)

\* the one-byte shards of the data digits, and room for the parity shards
Shards(digits, blknum) ==
    [i \in 1..blknum |-> IF i <= Len(digits) THEN Byte(digits[i]) ELSE 0]

NoPacked == [mdb |-> <<>>, digits |-> <<>>, err |-> NoErr, panic |-> NoPanic]

\* calculateMdBlocks after the address check, split being the digits of the
\* adjusted address
PackSplit(c, split) ==
    IF split.rest # 0 THEN [NoPacked EXCEPT !.panic = PanicResidual]
    ELSE IF MdTooBig(c) THEN [NoPacked EXCEPT !.panic = PanicMdBig]
    ELSE [NoPacked EXCEPT !.mdb = RsEncode(Shards(split.digits, c.blknum),
                                           c.blknum - c.rsnum),
                          !.digits = split.digits]

\* calculateMdBlocks(address, ef, sf); digits are the data digits before the
\* conversion to byte shards, mdb the vector returned
calculateMdBlocks(c, address, ef, sf) ==
    IF address > MaxAddr(c) THEN [NoPacked EXCEPT !.err = Eaddr]
    ELSE PackSplit(c, SplitDigits(PackValue(c, address, ef, sf), maxvals[c.mdsz],
                                  c.blknum - c.rsnum))

\* the fold "md = md * maxval + mdblk[i]" of decode
RECURSIVE FoldDigits(_, _, _)
FoldDigits(mdblk, maxval, n) ==
    IF n = 0 THEN 0 ELSE FoldDigits(mdblk, maxval, n - 1) * maxval + mdblk[n]

\* the end of decode: the metadata value md to address and flags
UnpackEf(md, maxaddr, sf) ==
    [address |-> IF md >= maxaddr THEN md - maxaddr ELSE md, ef |-> md >= maxaddr, sf |-> sf]

UnpackMd(md, maxaddr) ==
    IF md >= 2 * maxaddr THEN UnpackEf(md - 2 * maxaddr, maxaddr, TRUE)
    ELSE UnpackEf(md, maxaddr, FALSE)

Unpack(c, mdblk) ==
    UnpackMd(FoldDigits(mdblk, maxvals[c.mdsz], c.blknum - c.rsnum), MaxAddr(c))

\* the width of the metadata segment of block i (1-based)
MdSize(c, i) == IF i - 1 >= c.blknum - c.rsnum THEN RsNts ELSE c.mdsz

\* ----------------------------------------------------------------- encode
\* the data bytes of a block combined, shifted and given their parity bit
WithParity(v) == IF OnesCount64(v) % 2 # 0 THEN Inc64(v) ELSE v
BlockValue(buf) == WithParity(Shl1(Combine(buf)))

\* o.Append(b), b being what l0.Encode returned; a failed Encode ends the loop
AppendSeg(acc, b) ==
    IF acc.err # NoErr THEN acc
    ELSE IF b.err # NoErr THEN [o |-> <<>>, err |-> b.err]
    ELSE [o |-> acc.o \o b.o, err |-> NoErr]

\* the data segment, then the metadata segment of block i
AppendData(c, acc, buf) ==
    IF acc.err # NoErr THEN acc
    ELSE AppendSeg(acc, L0Encode(Slice(acc.o, Len(acc.o) - 4, Len(acc.o)),
                                 BlockValue(buf), DataNts, c.crit))

AppendMd(c, acc, md, sz) ==
    IF acc.err # NoErr THEN acc
    ELSE AppendSeg(acc, L0Encode(Slice(acc.o, Len(acc.o) - 4, 0), U64(md), sz, c.crit))

\* the block loop of encode, from block i (1-based) on
RECURSIVE encodeBlocks(_, _, _, _, _)
encodeBlocks(c, data, mdb, acc, i) ==
    IF i > c.blknum \/ acc.err # NoErr THEN acc
    ELSE encodeBlocks(c, data, mdb,
                      AppendMd(c, AppendData(c, acc, data[i]), mdb[i], MdSize(c, i)),
                      i + 1)

\* the payload with every byte negated
Negate(data) == [i \in 1..Len(data) |-> [j \in 1..Len(data[i]) |-> NotByte(data[i][j])]]

EncFail(e) == [o |-> <<>>, err |-> e, panic |-> NoPanic]

\* o.Append(p3) and the return of encode
WithP3(acc, p3) ==
    IF acc.err # NoErr THEN EncFail(acc.err)
    ELSE [o |-> acc.o \o p3, err |-> NoErr, panic |-> NoPanic]

\* encode once the metadata blocks md are calculated
encodeWith(c, p5, p3, md, data) ==
    IF md.panic # NoPanic THEN [o |-> <<>>, err |-> NoErr, panic |-> md.panic]
    ELSE IF md.err # NoErr THEN EncFail(md.err)
    ELSE WithP3(encodeBlocks(c, data, md.mdb, [o |-> p5, err |-> NoErr], 1), p3)

\* encode(p5, p3, address, ef, sf, data)
encode(c, p5, p3, address, ef, sf, data) ==
    IF Len(data) # BlockNum(c) THEN EncFail(Einvblk)
    ELSE IF \E i \in 1..Len(data) : Len(data[i]) # BlockSize THEN EncFail(Einvsz)
    ELSE IF Len(p5) < 4 THEN EncFail(Ep5short)
    ELSE encodeWith(c, p5, p3, calculateMdBlocks(c, address, ef, sf),
                    IF sf THEN Negate(data) ELSE data)

\* ----------------------------------------------------------------- decode
\* the parity test of a decoded data value
\* (a test that leaves the parity bit out)
ParityOk_nopbit(v, pbit) == OnesCount64(v) % 2 = 0
ParityOk(v, pbit) == (OnesCount64(v) + pbit) % 2 = 0

Bytes4(v) == <<ByteAt(v, 0), ByteAt(v, 1), ByteAt(v, 2), ByteAt(v, 3)>>

\* the block a decoded 33-bit value gives: its bytes, or nothing (<<>>) when
\* the parity is wrong
BlockOf(v, pbit, flip) ==
    IF ParityOk(v, pbit) THEN Bytes4(IF flip THEN Not64(v) ELSE v) ELSE <<>>

\* the data segment of a round: the block and what err is afterwards
DataOf(r, flip) ==
    [d |-> IF r.err = NoErr THEN BlockOf(Shr1(r.v), r.v[1], flip) ELSE <<>>, err |-> r.err]

DataSeg(c, flip, st) ==
    IF Len(st.ol) < DataNts THEN [d |-> <<>>, err |-> st.err]
    ELSE DataOf(L0Decode(st.prefix, Slice(st.ol, 0, DataNts), c.crit), flip)

\* the metadata segment of a round
MdOf(m) == [short |-> FALSE, v |-> LowNat(m.v, 2 * RsNts), err |-> m.err]

MdSeg(c, st, mdsz) ==
    IF Len(Slice(st.ol, DataNts, DataNts + mdsz)) # mdsz
    THEN [short |-> TRUE, v |-> 0, err |-> NoErr]
    ELSE MdOf(L0Decode(Slice(st.ol, DataNts - 4, DataNts),
                       Slice(st.ol, DataNts, DataNts + mdsz), c.crit))

\* the loop's variables after a round that read d and m
Round(st, i, mdsz, d, m) ==
    [ol |-> Slice(st.ol, DataNts + mdsz, 0),
     prefix |-> Slice(st.ol, DataNts - 4 + mdsz, DataNts + mdsz),
     data |-> Append(st.data, d.d),
     mdblk |-> IF m.short THEN st.mdblk ELSE [st.mdblk EXCEPT ![i] = m.v],
     mdok |-> st.mdok /\ ~m.short /\ m.err = NoErr,
     err |-> IF m.short THEN d.err ELSE m.err]

\* one round of the block loop of decode; st holds the loop's variables
decodeBlock(c, i, flip, st) ==
    Round(st, i, MdSize(c, i), DataSeg(c, flip, st), MdSeg(c, st, MdSize(c, i)))

RECURSIVE decodeLoop(_, _, _, _)
decodeLoop(c, flip, st, i) ==
    IF i > c.blknum THEN st ELSE decodeLoop(c, flip, decodeBlock(c, i, flip, st), i + 1)

\* cutting the primers: the body between them, or Eprimer
CutPrimers(ol, f5, f3) ==
    IF f5[1] # 0 THEN [sol |-> <<>>, err |-> Eprimer]
    ELSE IF f3[1] < 0 \/ f3[1] + f3[2] # Len(ol) THEN [sol |-> <<>>, err |-> Eprimer]
    ELSE [sol |-> Slice(ol, f5[1] + f5[2], f3[1]), err |-> NoErr]

\* the loop's variables before the first round
LoopStart(c, p5, sol) ==
    [ol |-> sol, prefix |-> Slice(p5, Len(p5) - 4, Len(p5)), data |-> <<>>,
     mdblk |-> [i \in 1..c.blknum |-> 0], mdok |-> TRUE, err |-> NoErr]

\* the metadata check after the loop
Validated(c, st) ==
    st.mdok /\ RsVerify([i \in 1..c.blknum |-> Byte(st.mdblk[i])], c.blknum - c.rsnum).ok

\* decode up to the metadata check: the primers cut, the blocks read, mdok
ParseCut(c, p5, cut, flip) ==
    IF cut.err # NoErr
    THEN [LoopStart(c, p5, <<>>) EXCEPT !.err = cut.err, !.mdok = FALSE]
    ELSE decodeLoop(c, flip, LoopStart(c, p5, cut.sol), 1)

Parse(c, p5, p3, ol, flip) ==
    ParseCut(c, p5, CutPrimers(ol, Find(ol, p5, PrimerErrors), Find(ol, p3, PrimerErrors)),
             flip)

\* whether the pass hands the oligo to tryRecover
\* (a gateway that does not look at recover)
CallsRecover_always(mdok, recover) == ~mdok
CallsRecover(mdok, recover) == ~mdok /\ recover

\* what a pass returns, and beside it: whether the primers were found,
\* whether the metadata passed the check, whether tryRecover was invoked
PassZero(flip) ==
    [flip |-> flip, address |-> 0, ef |-> FALSE, sf |-> FALSE, data |-> <<>>,
     err |-> NoErr, primers |-> FALSE, mdok |-> FALSE, recovered |-> FALSE]

Resolved(flip, u, data, mdok, recovered) ==
    [PassZero(flip) EXCEPT !.primers = TRUE, !.mdok = mdok, !.recovered = recovered,
                           !.address = u.address, !.ef = u.ef, !.sf = u.sf,
                           !.data = data]

\* the end of decode, from the metadata check on; rec is what tryRecover
\* returns if it is invoked
Finish(c, flip, st, mdok, recover, rec) ==
    IF CallsRecover(mdok, recover)
    THEN IF rec.err # NoErr
         THEN [PassZero(flip) EXCEPT !.primers = TRUE, !.recovered = TRUE,
                                     !.data = rec.data, !.err = rec.err]
         ELSE Resolved(flip, Unpack(c, rec.mdblk), rec.data, FALSE, TRUE)
    ELSE IF ~mdok
         THEN [PassZero(flip) EXCEPT !.primers = TRUE, !.data = st.data,
                                     !.err = Emetadata]
         ELSE Resolved(flip, Unpack(c, st.mdblk), st.data, TRUE, FALSE)

\* decode after the block loop left st
decodeParsed(c, flip, st, recover, rec) ==
    IF st.err = Eprimer THEN [PassZero(flip) EXCEPT !.err = Eprimer]
    ELSE Finish(c, flip, st, Validated(c, st), recover, rec)

\* decode(p5, p3, ol, flip, recover)
decode(c, p5, p3, ol, flip, recover, rec) ==
    decodeParsed(c, flip, Parse(c, p5, p3, ol, flip), recover, rec)

\* ------------------------------------------------------------ the program
VARIABLES
    pc,        \* where the caller stands
    c,         \* the codec NewCodec returned
    args,      \* the arguments of Encode (and sf, for a direct call of the packer)
    enc,       \* the encode passes Encode has run: [sf, o, err, panic]
    o, err,    \* what Encode returned
    panic,     \* the panic that aborted the call, if any
    noise,     \* what happened to the oligo between Encode and Decode
    ol,        \* the oligo handed to Decode
    recover,   \* Decode's recover argument
    dec,       \* the decode passes Decode has run
    ret,       \* what Decode returned
    packed,    \* what calculateMdBlocks returned
    unpacked   \* what the unpack rule makes of packed.mdb

vars == <<pc, c, args, enc, o, err, panic, noise, ol, recover, dec, ret, packed, unpacked>>

\* ------------------------------------------------------------------ inputs
Primers ==
    { [p5 |-> <<0, 3, 0, 3, 3, 0, 3, 0, 0, 3>>, p3 |-> <<1, 2, 1, 2, 2, 1, 2, 1, 1, 2>>],
      [p5 |-> <<3, 3, 3, 2, 3, 3, 3, 2, 3, 3>>, p3 |-> <<2, 2, 2, 3, 2, 2, 3, 3, 2, 2>>] }

Blocks == << <<1, 2, 3, 4>>, <<255, 255, 255, 255>>, <<240, 240, 240, 240>> >>

\* payloads of the codec's block count: the first or the second block repeated, or
\* the blocks in turn from the third on
Payloads(cc) ==
    {[i \in 1..cc.blknum |-> Blocks[((k + i * (k \div 2)) % Len(Blocks)) + 1]] :
        k \in 0..(Len(Blocks) - 1)}

\* the addresses Encode is tried on: the ends of the range, the middle, and
\* the first address beyond it
Addresses(cc) == {0, MaxAddr(cc) \div 2, MaxAddr(cc), MaxAddr(cc) + 1}

NoNoise == [kind |-> "none", blk |-> 0, bit |-> 0, pos |-> 0, len |-> 0]
NoPass == [address |-> 0, ef |-> FALSE, data |-> <<>>, err |-> NoErr]
NoUnpacked == [address |-> 0, ef |-> FALSE, sf |-> FALSE]

Init ==
    /\ pc = "Encode"
    /\ c \in Codecs
    /\ \E pr \in Primers, ef \in BOOLEAN :
         \E a \in Addresses(c), d \in Payloads(c) :
            args = [p5 |-> pr.p5, p3 |-> pr.p3, address |-> a, ef |-> ef, sf |-> FALSE,
                    data |-> d]
    /\ enc = <<>>
    /\ o = <<>>
    /\ err = NoErr
    /\ panic = NoPanic
    /\ noise = NoNoise
    /\ ol = <<>>
    /\ recover = FALSE
    /\ dec = <<>>
    /\ ret = NoPass
    /\ packed = NoPacked
    /\ unpacked = NoUnpacked

\* ------------------------------------------------------------------ Encode
\* Encode after its first pass returned r: return, unless the GC content is high
AfterFirstPass(r) ==
    /\ enc' = <<[sf |-> FALSE, o |-> r.o, err |-> r.err, panic |-> r.panic]>>
    /\ o' = r.o
    /\ err' = r.err
    /\ panic' = r.panic
    /\ pc' = IF r.panic # NoPanic THEN "Panic"
             ELSE IF r.err = NoErr /\ HighGC(r.o) THEN "HighGC"
             ELSE "Encoded"

\* Encode, first pass: encode with sf = false
EncodeFirst ==
    /\ pc = "Encode"
    /\ AfterFirstPass(encode(c, args.p5, args.p3, args.address, args.ef, FALSE, args.data))
    /\ UNCHANGED <<c, args, noise, ol, recover, dec, ret, packed, unpacked>>

\* the oligo Encode returns after the second pass returned r
\* (an Encode that keeps the first oligo)
RetryOligo_first(first, r) == first
RetryOligo(first, r) == IF r.err = NoErr THEN r.o ELSE first

BothHighGC(r) == r.panic = NoPanic /\ r.err = NoErr /\ HighGC(r.o)

\* Encode after its second pass returned r
AfterSecondPass(r) ==
    /\ enc' = Append(enc, [sf |-> TRUE, o |-> r.o, err |-> r.err, panic |-> r.panic])
    /\ o' = RetryOligo(o, r)
    /\ err' = r.err
    /\ panic' = IF BothHighGC(r) THEN PanicGC ELSE r.panic
    /\ pc' = IF BothHighGC(r) \/ r.panic # NoPanic THEN "Panic" ELSE "Encoded"

\* Encode, second pass: encode with sf = true
EncodeRetry ==
    /\ pc = "HighGC"
    /\ AfterSecondPass(encode(c, args.p5, args.p3, args.address, args.ef, TRUE, args.data))
    /\ UNCHANGED <<c, args, noise, ol, recover, dec, ret, packed, unpacked>>

\* ------------------------------------------------------------- the channel
\* where the data segment of block i starts in an oligo Encode returned
RECURSIVE DataStart(_, _, _)
DataStart(cc, p5len, i) ==
    IF i = 1 THEN p5len
    ELSE DataStart(cc, p5len, i - 1) + DataNts + MdSize(cc, i - 1)

FlipBits == {0, 24, 25, 31}
TruncLens == {1, RsNts + 1}

\* the runs <<offset in the block, length>> of nucleotides that are misread:
\* the first of the data segment, its last, its last two, and the first of
\* the metadata segment
Bursts == {<<0, 1>>, <<DataNts - 1, 1>>, <<DataNts - 2, 2>>, <<DataNts, 1>>}

Misread(oo, pos, n) ==
    [k \in 1..Len(oo) |-> IF k >= pos /\ k < pos + n THEN (oo[k] + 2) % 4 ELSE oo[k]]

\* oo with the DataNts nucleotides after start replaced by seg
Replace(oo, start, seg) ==
    [k \in 1..Len(oo) |-> IF k > start /\ k <= start + Len(seg) THEN seg[k - start] ELSE oo[k]]

FlipBit(v, bit) == [v EXCEPT ![bit + 2] = 1 - @]

\* the data segment at start re-derived from its value with one payload bit
\* flipped and the parity bit kept
FlipAt(oo, start, bit, crit) ==
    Replace(oo, start,
            L0Encode(Slice(oo, start - 4, start),
                     FlipBit(L0Decode(Slice(oo, start - 4, start),
                                      Slice(oo, start, start + DataNts), crit).v, bit),
                     DataNts, crit).o)

FlipSegment(cc, p5len, oo, blk, bit) == FlipAt(oo, DataStart(cc, p5len, blk), bit, cc.crit)

Sent == pc = "Encoded" /\ err = NoErr

\* the oligo is read back as written
Deliver ==
    /\ Sent
    /\ ol' = o
    /\ noise' = NoNoise
    /\ pc' = "Decode"
    /\ UNCHANGED <<c, args, enc, o, err, panic, recover, dec, ret, packed, unpacked>>

\* one payload bit of one block was wrong when its data segment was derived
FlipPayloadBit ==
    /\ Sent
    /\ \E blk \in 1..c.blknum, bit \in FlipBits :
          /\ ol' = FlipSegment(c, Len(args.p5), o, blk, bit)
          /\ noise' = [kind |-> "bitflip", blk |-> blk, bit |-> bit, pos |-> 0, len |-> 0]
    /\ pc' = "Decode"
    /\ UNCHANGED <<c, args, enc, o, err, panic, recover, dec, ret, packed, unpacked>>

\* a run of nucleotides of a block is read as other ones
Substitute ==
    /\ Sent
    /\ \E blk \in 1..c.blknum, run \in Bursts :
          /\ ol' = Misread(o, DataStart(c, Len(args.p5), blk) + run[1] + 1, run[2])
          /\ noise' = [kind |-> "subst", blk |-> blk, bit |-> 0, pos |-> run[1], len |-> run[2]]
    /\ pc' = "Decode"
    /\ UNCHANGED <<c, args, enc, o, err, panic, recover, dec, ret, packed, unpacked>>

\* the last n nucleotides in front of the 3'-end primer are lost
Truncate ==
    /\ Sent
    /\ \E n \in TruncLens :
          LET body == Len(o) - Len(args.p3)
          IN  /\ ol' = SubSeq(o, 1, body - n) \o args.p3
              /\ noise' = [kind |-> "trunc", blk |-> c.blknum, bit |-> 0, pos |-> 0, len |-> n]
    /\ pc' = "Decode"
    /\ UNCHANGED <<c, args, enc, o, err, panic, recover, dec, ret, packed, unpacked>>

\* ------------------------------------------------------------------ Decode
\* what tryRecover may return: an error, or the blocks and the metadata digits
\* that were written
RecoverOutcomes ==
    { [data |-> <<>>, mdblk |-> <<>>, err |-> Erecover],
      [data |-> args.data,
       mdblk |-> calculateMdBlocks(c, args.address, args.ef, enc[Len(enc)].sf).mdb,
       err |-> NoErr] }

\* whether Decode runs a second pass after the pass that returned r
\* (a test that does not look at sf)
NeedsRetry_noSf(r) == r.err = NoErr
NeedsRetry(r) == ~(r.err # NoErr \/ ~r.sf)

Returned(r) == [address |-> r.address, ef |-> r.ef, data |-> r.data, err |-> r.err]

\* Decode after its first pass returned r
AfterFirstDecode(r, rcv) ==
    /\ recover' = rcv
    /\ dec' = <<r>>
    /\ ret' = IF NeedsRetry(r) THEN ret ELSE Returned(r)
    /\ pc' = IF NeedsRetry(r) THEN "PolarityRetry" ELSE "Done"

FirstDecodeOf(st) ==
    \E rcv \in BOOLEAN, rec \in RecoverOutcomes :
        AfterFirstDecode(decodeParsed(c, FALSE, st, rcv, rec), rcv)

\* Decode, first pass: flip = false
DecodeFirst ==
    /\ pc = "Decode"
    /\ FirstDecodeOf(Parse(c, args.p5, args.p3, ol, FALSE))
    /\ UNCHANGED <<c, args, enc, o, err, panic, noise, ol, packed, unpacked>>

\* Decode after its second pass returned r
AfterSecondDecode(r) ==
    /\ dec' = Append(dec, r)
    /\ ret' = Returned(r)
    /\ pc' = "Done"

SecondDecodeOf(st) ==
    \E rec \in RecoverOutcomes : AfterSecondDecode(decodeParsed(c, TRUE, st, recover, rec))

\* Decode, second pass: flip = true
DecodeRetry ==
    /\ pc = "PolarityRetry"
    /\ SecondDecodeOf(Parse(c, args.p5, args.p3, ol, TRUE))
    /\ UNCHANGED <<c, args, enc, o, err, panic, noise, ol, recover, packed, unpacked>>

Next ==
    \/ EncodeFirst
    \/ EncodeRetry
    \/ Deliver
    \/ FlipPayloadBit
    \/ Substitute
    \/ Truncate
    \/ DecodeFirst
    \/ DecodeRetry

Spec == Init /\ [][Next]_vars

\* ------------------------------------------------- the packer on its own
PackAddresses(cc) ==
    IF MaxAddr(cc) <= FullAddrMax THEN 0..(MaxAddr(cc) + 1) ELSE Addresses(cc)

InitPack ==
    /\ pc = "Pack"
    /\ c \in Codecs
    /\ \E ef \in BOOLEAN, sf \in BOOLEAN :
         \E a \in PackAddresses(c) :
            args = [p5 |-> <<>>, p3 |-> <<>>, address |-> a, ef |-> ef, sf |-> sf,
                    data |-> <<>>]
    /\ enc = <<>>
    /\ o = <<>>
    /\ err = NoErr
    /\ panic = NoPanic
    /\ noise = NoNoise
    /\ ol = <<>>
    /\ recover = FALSE
    /\ dec = <<>>
    /\ ret = NoPass
    /\ packed = NoPacked
    /\ unpacked = NoUnpacked

\* calculateMdBlocks(address, ef, sf)
Pack ==
    /\ pc = "Pack"
    /\ packed' = calculateMdBlocks(c, args.address, args.ef, args.sf)
    /\ pc' = IF packed'.panic # NoPanic THEN "Panic"
             ELSE IF packed'.err # NoErr THEN "Refused" ELSE "Packed"
    /\ UNCHANGED <<c, args, enc, o, err, panic, noise, ol, recover, dec, ret, unpacked>>

\* the unpack rule of decode on the vector the packer returned
UnpackPacked ==
    /\ pc = "Packed"
    /\ unpacked' = Unpack(c, packed.mdb)
    /\ pc' = "Unpacked"
    /\ UNCHANGED <<c, args, enc, o, err, panic, noise, ol, recover, dec, ret, packed>>

NextPack == Pack \/ UnpackPacked

SpecPack == InitPack /\ [][NextPack]_vars

\* ------------------------------------------------------------------ claims
Decoded == pc = "Done"
Clean == noise.kind = "none"
Called == pc # "Pack"

\* C1: without noise, Decode of the oligo Encode returned gives no error, the
\* address and ef that were encoded, and every block of the payload,
\* whichever polarity Encode kept, for every address 0..MaxAddr.
C1_RoundTrip ==
    (Decoded /\ Clean) =>
        ret = [address |-> args.address, ef |-> args.ef, data |-> args.data, err |-> NoErr]

\* C2: unpacking the digits calculateMdBlocks(a, ef, sf) returned gives back
\* (a, ef, sf), for every a <= MaxAddr.
C2_Bijection ==
    pc = "Unpacked" =>
        unpacked = [address |-> args.address, ef |-> args.ef, sf |-> args.sf]

\* C3: on a codec whose width passes the guard, for an address <= MaxAddr the
\* adjusted address always splits into B-R digits with nothing left, so
\* calculateMdBlocks never panics with "address not zero at the end".
C3_NoResidual ==
    (Called /\ c.mdsz * 2 <= 8 /\ args.address <= MaxAddr(c)) =>
        packed.panic # PanicResidual

\* C4: Decode runs at most two passes; the first with flip = false; a second,
\* with flip = true, if and only if the first returned no error and sf; what
\* Decode returns is what its last pass returned, and no third pass follows.
C4_DecodePasses ==
    /\ Len(dec) <= 2
    /\ Len(dec) >= 1 => ~dec[1].flip
    /\ Len(dec) = 2 => dec[2].flip /\ dec[1].err = NoErr /\ dec[1].sf
    /\ pc = "PolarityRetry" => Len(dec) = 1 /\ dec[1].err = NoErr /\ dec[1].sf
    /\ Decoded =>
          /\ Len(dec) >= 1
          /\ Len(dec) = 2 <=> (dec[1].err = NoErr /\ dec[1].sf)
          /\ ret.address = dec[Len(dec)].address
          /\ ret.ef = dec[Len(dec)].ef
          /\ ret.data = dec[Len(dec)].data
          /\ ret.err = dec[Len(dec)].err

C4_Witness ==
    /\ Decoded
    /\ Len(dec) = 2
    /\ dec[2].sf
    /\ ret.err = NoErr
    /\ ret.data = args.data

\* C5: Encode runs encode with sf = false first and with sf = true only when
\* the first oligo has a GC fraction above 0.6; an oligo returned with a nil
\* error has a GC fraction of at most 0.6 and is the sf = true one exactly
\* when the sf = false one was above 0.6; when both are above, Encode panics.
AboveGC(x) == 10 * CountGC(x) > 6 * Len(x)

C5_FirstHigh == enc[1].panic = NoPanic /\ enc[1].err = NoErr /\ AboveGC(enc[1].o)

C5_GCBalance ==
    /\ Len(enc) <= 2
    /\ Len(enc) >= 1 => ~enc[1].sf
    /\ Len(enc) = 2 => enc[2].sf /\ C5_FirstHigh
    /\ (pc \notin {"Encode", "HighGC", "Panic"} /\ err = NoErr) =>
          /\ ~AboveGC(o)
          /\ Len(enc) = 2 <=> C5_FirstHigh
          /\ o = enc[Len(enc)].o
          /\ Len(o) = 2 * Len(args.p5) + OligoLen(c)
    /\ pc = "HighGC" <=> (Len(enc) = 1 /\ C5_FirstHigh)
    /\ (Len(enc) = 2 /\ enc[2].panic = NoPanic /\ enc[2].err = NoErr /\ AboveGC(enc[2].o))
          => (pc = "Panic" /\ panic = PanicGC)

C5_Witness ==
    /\ pc = "Encoded"
    /\ err = NoErr
    /\ Len(enc) = 2
    /\ o = enc[2].o
    /\ AboveGC(enc[1].o)

\* C6: when the data segment of one block is re-derived with one payload bit
\* flipped and the parity bit kept, Decode returns that block absent, every
\* other block as it was encoded, the address and ef that were encoded, no
\* error, and the metadata passes its check.
C6_ParityLocal ==
    (Decoded /\ noise.kind = "bitflip") =>
        /\ ret.err = NoErr
        /\ ret.address = args.address
        /\ ret.ef = args.ef
        /\ Len(ret.data) = c.blknum
        /\ \A j \in 1..c.blknum :
              ret.data[j] = IF j = noise.blk THEN <<>> ELSE args.data[j]
        /\ dec[Len(dec)].mdok

\* C7: with the primers found, a block whose data segment is short, fails the
\* l0 decode or fails the parity is absent at its index, every other block is
\* present, the data has one entry per block, and no pass returns the l0
\* error: the error is nil when the metadata passes its check, and otherwise
\* Emetadata or the error of tryRecover.
C7_Body == CutPrimers(ol, Find(ol, args.p5, PrimerErrors), Find(ol, args.p3, PrimerErrors)).sol

C7_Prefix(sol, off) ==
    IF off = 0 THEN Slice(args.p5, Len(args.p5) - 4, Len(args.p5)) ELSE Slice(sol, off - 4, off)

C7_L0(sol, off) == L0Decode(C7_Prefix(sol, off), Slice(sol, off, off + DataNts), c.crit)

C7_Short(sol, off) == Len(sol) - off < DataNts

C7_Odd(r) == r.err # NoErr \/ OnesCount64(r.v) % 2 # 0

C7_Bad(sol, off) == C7_Short(sol, off) \/ C7_Odd(C7_L0(sol, off))

C7_PassOk(r, sol) ==
    r.primers =>
        /\ r.err \in {NoErr, Emetadata, Erecover}
        /\ r.mdok => r.err = NoErr
        /\ ~r.recovered =>
              /\ Len(r.data) = c.blknum
              /\ \A i \in 1..c.blknum :
                    (r.data[i] = <<>>) <=> C7_Bad(sol, DataStart(c, 0, i))

C7_Passes(sol) == \A k \in 1..Len(dec) : C7_PassOk(dec[k], sol)

C7_Failed(sol, i) ==
    /\ ~C7_Short(sol, DataStart(c, 0, i))
    /\ C7_L0(sol, DataStart(c, 0, i)).err # NoErr
    /\ ret.data[i] = <<>>
    /\ \E j \in (i + 1)..c.blknum : ret.data[j] # <<>>

C8_Unresolved(r) == r.address = 0 /\ ~r.ef /\ ~r.sf

C8_PassOk(r) ==
    r.primers =>
        /\ r.recovered => (recover /\ ~r.mdok /\ ~Clean)
        /\ (~r.mdok /\ ~r.recovered) =>
              (~recover /\ r.err = Emetadata /\ C8_Unresolved(r))
        /\ (~recover /\ r.err # NoErr) => (r.err = Emetadata /\ ~r.recovered)
        /\ r.mdok => (~r.recovered /\ r.err = NoErr)
        /\ (r.recovered /\ r.err # NoErr) => (r.err = Erecover /\ C8_Unresolved(r))

C8_RecoveryGateway == \A k \in 1..Len(dec) : C8_PassOk(dec[k])

C8_Witness ==
    /\ Decoded
    /\ recover
    /\ dec[1].recovered
    /\ ret.err = Erecover

\* C9 as claimed: the data digits that reach the shards are below baseM <= 256
\* and survive the conversion to a byte, widths 3 and 4 pass the guard, and
\* every call of calculateMdBlocks on a width-5 codec panics with "metadata
\* block too big" before any shard is built.
C9_DigitsKept ==
    pc \in {"Packed", "Unpacked"} =>
        /\ c.mdsz \in {3, 4}
        /\ maxvals[c.mdsz] <= 256
        /\ Len(packed.digits) = c.blknum - c.rsnum
        /\ Len(packed.mdb) = c.blknum
        /\ \A i \in 1..(c.blknum - c.rsnum) :
              /\ packed.digits[i] < maxvals[c.mdsz]
              /\ packed.mdb[i] = packed.digits[i]
        /\ \A i \in 1..c.blknum : packed.mdb[i] \in 0..255

C9_Original ==
    /\ C9_DigitsKept
    /\ (Called /\ c.mdsz = 5) => (packed.panic = PanicMdBig /\ packed.mdb = <<>>)

\* C9 as amended: as above, but on a width-5 codec it is every call with an
\* address <= MaxAddr that panics; a call with a larger address returns the
\* "address too big" error, as on any codec.
C9_Amended ==
    /\ C9_DigitsKept
    /\ (Called /\ c.mdsz = 5 /\ args.address <= MaxAddr(c)) =>
          (pc = "Panic" /\ packed.panic = PanicMdBig /\ packed.mdb = <<>>)
    /\ (Called /\ args.address > MaxAddr(c)) =>
          (pc = "Refused" /\ packed.err = Eaddr /\ packed.panic = NoPanic)
    /\ (Called /\ c.mdsz \in {3, 4}) => packed.panic # PanicMdBig

C9_Witness ==
    /\ pc = "Panic"
    /\ c.mdsz = 5
    /\ args.address = MaxAddr(c)
    /\ packed.panic = PanicMdBig

\* C10: when Encode returns an error it returns no oligo, also when the
\* sf = false pass gave an oligo above 0.6 and the retry failed; so the oligo
\* a caller holds after Encode is never above 0.6.
C10_OligoOrError ==
    pc = "Encoded" =>
        /\ err # NoErr => o = <<>>
        /\ ~AboveGC(o)

====
